---- MODULE Spec2Model ----
(***************************************************************************)
(* A model of src/FF.py: class NNUnit, one sigmoid layer with a forward    *)
(* pass (CalcOut) and an L2-regularised gradient step (UpdateWB).          *)
(*                                                                         *)
(* Numbers.  Real values are exact rationals <<n, d>> (d > 0, lowest       *)
(* terms); float64 rounding of + - * / is not modelled.  The one place     *)
(* where float64 range decides the outcome, 1/(1+np.exp(-x)), is modelled  *)
(* by the class of its float64 result (calcActivation below).              *)
(*                                                                         *)
(* Attributes.  An attribute of the object is <<"Unset">> (never           *)
(* assigned), <<"None">> (assigned None) or <<"arr", v>> (an array with    *)
(* value v).  Indices are 1-based here, 0-based in the source.             *)
(*                                                                         *)
(* Exceptions.  err is the outcome of the last call: "ok" or the name of   *)
(* the Python exception that ended it.  A method is one action; a raise    *)
(* cuts the method short and keeps the writes made before it.              *)
(***************************************************************************)
EXTENDS Integers, Sequences, FiniteSets, TLC

(* ------------------------------ bounds --------------------------------- *)
\* largest n_classes / n_pu tried
MaxDim == 2
\* clock ticks (of 1/TicksPerSec second) the clock may advance
MaxTime == 3
\* UpdateWB calls per object
MaxUpdates == 2
\* objects constructed one after the other in SpecUnits
MaxUnits == 2

\* resolution of the modelled clock: time.time() = now / TicksPerSec seconds
TicksPerSec == 2

(* ----------------------------- rationals ------------------------------- *)
Abs(n) == IF n < 0 THEN -n ELSE n

RECURSIVE GCD(_, _)
GCD(m, n) == IF n = 0 THEN m ELSE GCD(n, m % n)

\* the rational n/d in lowest terms with a positive denominator (d # 0)
Rat(n, d) ==
    LET s == IF d < 0 THEN -1 ELSE 1
        g == GCD(Abs(n), Abs(d))
    IN  <<(s * n) \div g, (s * d) \div g>>

R0 == <<0, 1>>
R1 == <<1, 1>>
RInt(k) == <<k, 1>>
RAdd(p, q) == Rat(p[1] * q[2] + q[1] * p[2], p[2] * q[2])
RSub(p, q) == Rat(p[1] * q[2] - q[1] * p[2], p[2] * q[2])
RMul(p, q) == Rat(p[1] * q[1], p[2] * q[2])
RDiv(p, q) == Rat(p[1] * q[2], p[2] * q[1])
RLt(p, q) == p[1] * q[2] < q[1] * p[2]
RLe(p, q) == p[1] * q[2] <= q[1] * p[2]

(* ------------------------------ arrays --------------------------------- *)
Unset == <<"Unset">>
None == <<"None">>
Arr(v) == <<"arr", v>>
IsArr(f) == f[1] = "arr"

\* shape of a matrix given as a sequence of rows
Rows(m) == Len(m)
Cols(m) == IF Len(m) = 0 THEN 0 ELSE Len(m[1])

\* np.zeros((r, c))
np_zeros(r, c) == [i \in 1..r |-> [j \in 1..c |-> R0]]

\* np.transpose(x)[i]: column i of x
Column(x, i) == [r \in 1..Rows(x) |-> x[r][i]]

RECURSIVE DotFrom(_, _, _)
DotFrom(u, v, k) ==
    IF k > Len(u) THEN R0 ELSE RAdd(RMul(u[k], v[k]), DotFrom(u, v, k + 1))

\* np.matmul of two 1-D arrays of equal length
np_matmul(u, v) == DotFrom(u, v, 1)

(* ------------------------ state of the program ------------------------- *)
VARIABLES
    pc,       \* "new": object allocated, __init__ not run; "inited": __init__ has run
    nc, pu,   \* self.nc, self.pu
    b, w,     \* self.b (nc x 1), self.w (nc x pu)
    oldb, oldw, \* self.oldb, self.oldw
    a,        \* self.a
    prev_x,   \* self.prev_x
    err,      \* outcome of the last call
    ret,      \* value returned by the last call
    now,      \* the clock, in ticks
    call,     \* the last call: its name, arguments and the fields before it
    lastUpd,  \* self.b / self.w as they were when the latest UpdateWB began
    made,     \* one record per construction: when, with what, which weights
    nUpd      \* UpdateWB calls made on the object

fields == <<nc, pu, b, w, oldb, oldw, a, prev_x>>
vars == <<pc, nc, pu, b, w, oldb, oldw, a, prev_x, err, ret, now, call,
          lastUpd, made, nUpd>>

\* the fields as one value, for "before the call" records
Snap == [nc |-> nc, pu |-> pu, b |-> b, w |-> w, oldb |-> oldb,
         oldw |-> oldw, a |-> a, prev_x |-> prev_x]

NoCall == [op |-> "none"]

Init ==
    /\ pc = "new"
    /\ nc = Unset /\ pu = Unset /\ b = Unset /\ w = Unset
    /\ oldb = Unset /\ oldw = Unset /\ a = Unset /\ prev_x = Unset
    /\ err = "ok" /\ ret = None
    /\ now = 0
    /\ call = NoCall
    /\ lastUpd = None
    /\ made = {}
    /\ nUpd = 0

\* time passes
Tick ==
    /\ now < MaxTime
    /\ now' = now + 1
    /\ UNCHANGED <<pc, fields, err, ret, call, lastUpd, made, nUpd>>

(* ---------------------------- construction ----------------------------- *)
\* int(time.time()): whole seconds of the clock
SeedOf(t) == t \div TicksPerSec

\* np.random.seed(s); np.random.randn(r, c).  The generator is deterministic
\* in its seed; the k-th draw of the stream seeded s stands as s + k - 3, which
\* differs between any two seeds.  The matrix is filled in row-major order.
Draw(s, k) == RInt(s + k - 3)
np_random_randn(s, r, c) == [i \in 1..r |-> [j \in 1..c |-> Draw(s, (i - 1) * c + j)]]

\* np.zeros(1, n_classes): the second positional parameter of np.zeros is
\* dtype, and an integer is not a data type: TypeError for every integer.
np_zeros_1_n(n) == [err |-> "TypeError", val |-> Unset]

\* NNUnit.__init__(self, n_classes, n_pu), lines 5-14.  The statements run in
\* order until line 13 raises; the attributes assigned before it stay on the
\* object, which a caller holding a reference to it (object.__new__ followed by
\* __init__, a subclass's __init__, the traceback's frame) can go on using.
NNUnit_init(n_classes, n_pu) ==
    /\ pc = "new"
    /\ LET s == SeedOf(now)
           z == np_zeros_1_n(n_classes)
           wNew == np_random_randn(s, n_classes, n_pu)
       IN  /\ nc' = n_classes
           /\ pu' = n_pu
           /\ b' = Arr(np_zeros(n_classes, 1))
           /\ w' = Arr(wNew)
           /\ oldb' = None
           /\ oldw' = None
           \* line 13 raises: self.a and self.prev_x are never assigned
           /\ a' = IF z.err = "ok" THEN z.val ELSE a
           /\ prev_x' = IF z.err = "ok" THEN None ELSE prev_x
           /\ err' = z.err
           /\ ret' = None
           /\ made' = made \cup {[t |-> now, nc |-> n_classes, pu |-> n_pu, w |-> wNew]}
    /\ pc' = "inited"
    /\ call' = [op |-> "__init__", n_classes |-> n_classes, n_pu |-> n_pu]
    /\ UNCHANGED <<now, lastUpd, nUpd>>

Construct == \E n_classes \in 1..MaxDim, n_pu \in 1..MaxDim : NNUnit_init(n_classes, n_pu)

(* ----------------------------- activation ----------------------------- *)
\* float64 facts behind np.exp: np.exp(-x) overflows to inf (with a
\* RuntimeWarning) when -x > ln(DBL_MAX) = 709.78..., and 1 + np.exp(-x)
\* rounds to 1.0 when np.exp(-x) <= 2^-53, that is x >= 36.73...
\* Both thresholds are kept to two decimals.
ExpOverflowBelow == <<-70979, 100>>
OnePlusExpIsOneFrom == <<3674, 100>>

\* NNUnit.calcActivation(self, x), lines 15-16: 1/(1+np.exp(-x)) in float64.
\* kind is the class of the returned float: "zero" is exactly 0.0 (1/inf),
\* "one" is exactly 1.0, "open" is a value strictly between 0 and 1.
calcActivation(x) ==
    IF RLt(x, ExpOverflowBelow)
    THEN [kind |-> "zero", of |-> x, overflow |-> TRUE]
    ELSE IF RLe(OnePlusExpIsOneFrom, x)
         THEN [kind |-> "one", of |-> x, overflow |-> FALSE]
         ELSE [kind |-> "open", of |-> x, overflow |-> FALSE]

\* a direct call of calcActivation by the caller; it reads no field
CallActivation(x) ==
    /\ pc = "inited"
    /\ ret' = calcActivation(x)
    /\ err' = "ok"
    /\ call' = [op |-> "calcActivation", x |-> x, pre |-> Snap]
    /\ UNCHANGED <<pc, fields, now, lastUpd, made, nUpd>>

(* ------------------------------ forward -------------------------------- *)
\* the loop of CalcOut, lines 19-21, from index i on; aCur is self.a so far
RECURSIVE CalcOutLoop(_, _, _, _, _, _)
CalcOutLoop(i, aCur, x, wv, bv, n) ==
    IF i > n THEN [a |-> aCur, err |-> "ok"]
    \* np.transpose(x)[i]: x has no column i
    ELSE IF i > Cols(x) THEN [a |-> aCur, err |-> "IndexError"]
    \* np.matmul: the lengths of self.w[i] and of the column differ
    ELSE IF Len(wv[i]) # Rows(x) THEN [a |-> aCur, err |-> "ValueError"]
    ELSE LET myIn == RAdd(np_matmul(wv[i], Column(x, i)), bv[i][1])
             act == calcActivation(myIn)
         IN  \* self.a[i] = ...: the right-hand side is evaluated first
             IF ~IsArr(aCur) THEN [a |-> aCur, err |-> "AttributeError"]
             ELSE IF i > Len(aCur[2]) THEN [a |-> aCur, err |-> "IndexError"]
             ELSE CalcOutLoop(i + 1, Arr([aCur[2] EXCEPT ![i] = act]), x, wv, bv, n)

\* variant: the assignment placed after the loop, reached only if nothing raised
PrevXAfterLoop(x, before, loopErr) == IF loopErr = "ok" THEN Arr(x) ELSE before
\* line 18, self.prev_x = x: the first statement, executed whatever the loop
\* does afterwards (loopErr)
PrevXFirst(x, before, loopErr) == Arr(x)

\* NNUnit.CalcOut(self, x), lines 17-21
CalcOut(x) ==
    /\ pc = "inited"
    /\ LET r == CalcOutLoop(1, a, x, w[2], b[2], nc)
       IN  /\ prev_x' = PrevXFirst(x, prev_x, r.err)
           /\ a' = r.a
           /\ err' = r.err
    /\ ret' = None
    /\ call' = [op |-> "CalcOut", x |-> x, pre |-> Snap]
    /\ UNCHANGED <<pc, nc, pu, b, w, oldb, oldw, now, lastUpd, made, nUpd>>

(* ------------------------------- update -------------------------------- *)
\* variant: gradient ascent, the sign of the step flipped
NewBiasPlus(bi, dbi, lr) == RAdd(bi, RMul(lr, dbi))
\* line 26: self.b[i][0] - lr*db[i][0]
NewBias(bi, dbi, lr) == RSub(bi, RMul(lr, dbi))

\* variant: the decay not divided by the batch size
NewWeightNoBatch(wij, dwij, lr, regH, b_size) ==
    RSub(RMul(RSub(R1, RMul(regH, lr)), wij), RMul(lr, dwij))
\* line 29: (1-(regH*lr/b_size))*self.w[i][j] - (lr*dw[i][j])
NewWeight(wij, dwij, lr, regH, b_size) ==
    RSub(RMul(RSub(R1, RDiv(RMul(regH, lr), RInt(b_size))), wij), RMul(lr, dwij))

\* the loop of lines 25-26 from index i on; bCur is self.b so far
RECURSIVE BiasLoop(_, _, _, _, _)
BiasLoop(i, bCur, db, lr, n) ==
    IF i > n THEN [b |-> bCur, err |-> "ok"]
    \* db[i][0]: db has no row i, or the row has no entry
    ELSE IF i > Rows(db) \/ Len(db[i]) < 1 THEN [b |-> bCur, err |-> "IndexError"]
    ELSE BiasLoop(i + 1, [bCur EXCEPT ![i][1] = NewBias(bCur[i][1], db[i][1], lr)],
                  db, lr, n)

\* the loops of lines 27-29 from index (i, j) on; wCur is self.w so far
RECURSIVE WeightLoop(_, _, _, _, _, _, _, _, _)
WeightLoop(i, j, wCur, dw, lr, regH, b_size, n, m) ==
    IF i > n THEN [w |-> wCur, err |-> "ok"]
    ELSE IF j > m THEN WeightLoop(i + 1, 1, wCur, dw, lr, regH, b_size, n, m)
    \* dw[i][j]: dw has no row i, or the row has no entry j
    ELSE IF i > Rows(dw) \/ j > Len(dw[i]) THEN [w |-> wCur, err |-> "IndexError"]
    ELSE WeightLoop(i, j + 1,
                    [wCur EXCEPT ![i][j] = NewWeight(wCur[i][j], dw[i][j], lr, regH, b_size)],
                    dw, lr, regH, b_size, n, m)

\* variant: self.oldw = self.w, a second name for the array updated in place
np_alias(atCall, atEnd) == Arr(atEnd)
\* lines 23-24, np.array(self.b) / np.array(self.w): a copy, whose value is
\* that of the array when copied (atCall), whatever the array holds when the
\* method ends (atEnd)
np_array(atCall, atEnd) == Arr(atCall)

\* NNUnit.UpdateWB(self, dw, db, lr, regH, b_size), lines 22-29
UpdateWB(dw, db, lr, regH, b_size) ==
    /\ pc = "inited"
    /\ nUpd < MaxUpdates
    /\ LET rb == BiasLoop(1, b[2], db, lr, nc)
           rw == IF rb.err = "ok"
                 THEN WeightLoop(1, 1, w[2], dw, lr, regH, b_size, nc, pu)
                 ELSE [w |-> w[2], err |-> rb.err]
       IN  /\ oldb' = np_array(b[2], rb.b)
           /\ oldw' = np_array(w[2], rw.w)
           /\ b' = Arr(rb.b)
           /\ w' = Arr(rw.w)
           /\ err' = rw.err
    /\ ret' = None
    /\ lastUpd' = <<"at", b[2], w[2]>>
    /\ nUpd' = nUpd + 1
    /\ call' = [op |-> "UpdateWB", dw |-> dw, db |-> db, lr |-> lr, regH |-> regH,
                b_size |-> b_size, pre |-> Snap]
    /\ UNCHANGED <<pc, nc, pu, a, prev_x, now, made>>

(* ------------------------- the caller's inputs ------------------------- *)
\* entry (i, j) of input pattern p: all ones, or all different
Entry(p, i, j) == IF p = 1 THEN R1 ELSE RInt(i - 2 * j)
Matrix(p, r, c) == [i \in 1..r |-> [j \in 1..c |-> Entry(p, i, j)]]
Patterns == {1, 2}

\* shapes of (dw, db) as offsets <<rows of dw, columns of dw, rows of db,
\* columns of db>> from the shapes of self.w and self.b
GradShapeOK == <<0, 0, 0, 0>>
GradShapes == {GradShapeOK, <<1, 0, 0, 0>>, <<0, -1, 0, 0>>, <<0, 0, -1, 0>>}

\* <<lr, regH, b_size>>
Hyper1 == <<Rat(1, 2), R0, 1>>
Hypers == {Hyper1, <<Rat(1, 2), R1, 2>>, <<R1, R1, 1>>}

\* shapes of x as offsets <<rows, columns>> from <<self.pu, self.nc>>
XShapeOK == <<0, 0>>
XShapes == {XShapeOK, <<1, 0>>, <<0, 1>>, <<0, -1>>}

ActInputs == {RInt(-710), R0, RInt(37)}

Update ==
    \E sh \in GradShapes, p \in Patterns, h \in Hypers :
        /\ pc = "inited"
        /\ IF sh = GradShapeOK THEN p = 2 \/ h = Hyper1 ELSE p = 2 /\ h = Hyper1
        /\ UpdateWB(Matrix(p, nc + sh[1], pu + sh[2]),
                    Matrix(p, nc + sh[3], 1 + sh[4]), h[1], h[2], h[3])

Forward ==
    \E sh \in XShapes, p \in Patterns :
        /\ pc = "inited"
        /\ sh = XShapeOK \/ p = 2
        /\ CalcOut(Matrix(p, pu + sh[1], nc + sh[2]))

Activate == \E x \in ActInputs : CallActivation(x)

\* the caller drops the object and allocates another one
NewUnit ==
    /\ pc = "inited"
    /\ Cardinality(made) < MaxUnits
    /\ pc' = "new"
    /\ nc' = Unset /\ pu' = Unset /\ b' = Unset /\ w' = Unset
    /\ oldb' = Unset /\ oldw' = Unset /\ a' = Unset /\ prev_x' = Unset
    /\ err' = "ok" /\ ret' = None /\ call' = NoCall /\ lastUpd' = None
    /\ nUpd' = 0
    /\ UNCHANGED <<now, made>>

\* one object: constructed, then used
Next == Construct \/ Forward \/ Update \/ Activate

Spec == Init /\ [][Next]_vars

\* objects constructed one after the other while time passes
NextUnits == Tick \/ Construct \/ NewUnit

SpecUnits == Init /\ [][NextUnits]_vars

(* ------------------------------ properties ----------------------------- *)
\* the last call's gradients have the shapes of self.w and self.b
GradShaped ==
    /\ Rows(call.dw) = nc
    /\ \A i \in 1..Rows(call.dw) : Len(call.dw[i]) = pu
    /\ Rows(call.db) = nc
    /\ \A i \in 1..Rows(call.db) : Len(call.db[i]) = 1

\* the last call's input has nc columns of length pu
InputShaped ==
    /\ Rows(call.x) = pu
    /\ \A r \in 1..Rows(call.x) : Len(call.x[r]) = nc

\* C1: once an update has been called, oldw and oldb hold the values that w
\* and b had when the most recent update began, whatever that update and the
\* forward calls after it have done since.
C1_SnapshotsArePreUpdate ==
    lastUpd # None => oldb = Arr(lastUpd[2]) /\ oldw = Arr(lastUpd[3])

\* a forward call after a second update, which changed both w and b in place
C1_Witness ==
    /\ lastUpd # None
    /\ nUpd = 2
    /\ call.op = "CalcOut"
    /\ w # oldw
    /\ b # oldb

\* C2: after an update with correctly shaped gradients, for every i, j:
\* w[i][j] = (1 - regH*lr/b_size) * (w[i][j] before the call) - lr*dw[i][j],
\* stated with both sides multiplied by b_size.
C2_WeightClosedForm ==
    (call.op = "UpdateWB" /\ GradShaped) =>
        \A i \in 1..nc, j \in 1..pu :
            RMul(RInt(call.b_size), w[2][i][j])
              = RSub(RMul(RSub(RInt(call.b_size), RMul(call.regH, call.lr)),
                          call.pre.w[2][i][j]),
                     RMul(RMul(RInt(call.b_size), call.lr), call.dw[i][j]))

\* a second, regularised update of a 2 x 2 unit with distinct gradient entries
C2_Witness ==
    /\ call.op = "UpdateWB" /\ GradShaped
    /\ nc = 2 /\ pu = 2 /\ nUpd = 2
    /\ call.regH # R0 /\ call.b_size = 2
    /\ call.dw[1][2] # call.dw[2][1]
    /\ w # call.pre.w

\* C3: after an update with correctly shaped gradients, for every i:
\* b[i] = (b[i] before the call) - lr*db[i], whatever regH and b_size are;
\* stated as b[i] + lr*db[i] = b[i] before the call.
C3_BiasClosedForm ==
    (call.op = "UpdateWB" /\ GradShaped) =>
        \A i \in 1..nc :
            RAdd(b[2][i][1], RMul(call.lr, call.db[i][1])) = call.pre.b[2][i][1]

\* an update with regularisation on and a batch of 2 that moved the bias
C3_Witness ==
    /\ call.op = "UpdateWB" /\ GradShaped
    /\ call.regH = R1 /\ call.b_size = 2
    /\ nc = 2
    /\ b # call.pre.b

\* C4: a forward or update call with a mismatched shape ends in a shape error
\* and leaves every field as it was.
ShapeErrors == {"IndexError", "ValueError"}
C4_MismatchFailsCleanly ==
    /\ (call.op = "CalcOut" /\ ~InputShaped) => (err \in ShapeErrors /\ Snap = call.pre)
    /\ (call.op = "UpdateWB" /\ ~GradShaped) => (err \in ShapeErrors /\ Snap = call.pre)

\* C5: construction succeeds, with b a zero vector of nc entries, w an
\* nc x pu matrix, a of nc entries, and oldb, oldw, prev_x all None.
C5_ConstructionSucceeds ==
    call.op = "__init__" =>
        /\ err = "ok"
        /\ b = Arr(np_zeros(nc, 1))
        /\ IsArr(w) /\ Rows(w[2]) = nc /\ \A i \in 1..nc : Len(w[2][i]) = pu
        /\ IsArr(a) /\ Len(a[2]) = nc
        /\ oldb = None /\ oldw = None /\ prev_x = None

\* C6: after a forward call with a correctly shaped input, for every i,
\* a[i] = calcActivation(w[i] . column i of x + b[i]).
C6_ForwardComputesActivations ==
    (call.op = "CalcOut" /\ InputShaped) =>
        /\ IsArr(a) /\ Len(a[2]) = nc
        /\ \A i \in 1..nc :
              a[2][i] = calcActivation(RAdd(np_matmul(w[2][i], Column(call.x, i)), b[2][i][1]))

\* C7: a forward call leaves prev_x equal to its input, however the call
\* ends, and leaves w, b, oldw, oldb, nc and pu as they were.
C7_ForwardFrame ==
    call.op = "CalcOut" =>
        /\ prev_x = Arr(call.x)
        /\ w = call.pre.w /\ b = call.pre.b
        /\ oldw = call.pre.oldw /\ oldb = call.pre.oldb
        /\ nc = call.pre.nc /\ pu = call.pre.pu

\* a forward call, made after an update, that raised before storing any
\* activation and replaced an earlier input
C7_Witness ==
    /\ call.op = "CalcOut"
    /\ err # "ok"
    /\ nUpd > 0
    /\ IsArr(call.pre.prev_x)
    /\ prev_x # call.pre.prev_x

\* C8: in every state after construction, b has nc entries, w has nc rows of
\* pu entries, and a has nc entries.
C8_ShapesInvariant ==
    pc = "inited" =>
        /\ IsArr(b) /\ Rows(b[2]) = nc
        /\ IsArr(w) /\ Rows(w[2]) = nc /\ \A i \in 1..nc : Len(w[2][i]) = pu
        /\ IsArr(a) /\ Len(a[2]) = nc

\* C9: two units of the same dimensions constructed at different times have
\* different initial weights.
C9_DistinctTimesDistinctWeights ==
    \A r1 \in made, r2 \in made :
        (r1.t # r2.t /\ r1.nc = r2.nc /\ r1.pu = r2.pu) => r1.w # r2.w

\* C10: calcActivation returns a value strictly between 0 and 1 without
\* overflow, and so is every activation stored by a successful forward call.
C10_ActivationStrictlyInside ==
    /\ call.op = "calcActivation" => (ret.kind = "open" /\ ~ret.overflow)
    /\ (call.op = "CalcOut" /\ err = "ok") =>
           \A i \in 1..nc : a[2][i].kind = "open" /\ ~a[2][i].overflow
====
